---- MODULE Spec2Model ----
(***************************************************************************)
(* H-tree fractal: geometry (src/src/geometry.rs), growth engine and       *)
(* rasteriser (src/src/fractals.rs).                                       *)
(*                                                                         *)
(* f64 values are modelled exactly.  A slope is one of                     *)
(*   NaN, +inf / -inf, +0 / -0, or a non-zero rational n/d (d > 0);        *)
(* a length is n / sqrt(D) with integers n >= 0 and D \in {1, 2} (the seed *)
(* length is an integer, a child length is len(parent) / sqrt(2)).  Every  *)
(* rounding of the code is decided by integer comparisons of squares.      *)
(***************************************************************************)
EXTENDS Integers, Sequences, FiniteSets, TLC

----------------------------------------------------------------------------
(* Bounds of the model *)

MaxLen == 4        \* seed lengths 0..MaxLen
MaxLevel == 3      \* total number of growth levels applied to a seed
NumWorkers == 2    \* worker threads of the fork-join in render
MaxCoord == 3      \* coordinates of probed lines lie in 0..MaxCoord

(* Program constants.  render returns [u8; NUM_PIXELS] and GifEncoder::add_frame
   takes [u8; IMGPX], so NUM_PIXELS is IMGPX = IMGWID * IMGWID. *)
IMGWID == 256
NUM_PIXELS == IMGWID * IMGWID

----------------------------------------------------------------------------
(* f64 values *)

NaN == [k |-> "nan", n |-> 0, d |-> 0]
Inf(s) == [k |-> "inf", n |-> s, d |-> 0]
Zero(s) == [k |-> "zero", n |-> 0, d |-> s]
Fin(a, b) == IF a = 0 THEN Zero(1)
             ELSE IF b < 0 THEN [k |-> "fin", n |-> -a, d |-> -b]
             ELSE [k |-> "fin", n |-> a, d |-> b]

Abs(i) == IF i < 0 THEN -i ELSE i
Sign(i) == IF i < 0 THEN -1 ELSE 1

\* 1.0 / g
Recip(g) ==
    CASE g.k = "nan" -> NaN
      [] g.k = "inf" -> Zero(g.n)
      [] g.k = "zero" -> Inf(g.d)
      [] OTHER -> Fin(g.d, g.n)

Num(v) == IF v.k = "fin" THEN v.n ELSE 0
Den(v) == IF v.k = "fin" THEN v.d ELSE 1

\* a - b
FSub(a, b) ==
    CASE a.k = "nan" \/ b.k = "nan" -> NaN
      [] a.k = "inf" -> IF b.k = "inf" /\ b.n = a.n THEN NaN ELSE a
      [] b.k = "inf" -> Inf(-b.n)
      [] OTHER -> Fin(Num(a) * Den(b) - Num(b) * Den(a), Den(a) * Den(b))

is_infinite(m) == m.k = "inf"

\* A <= B * sqrt(K), for integers A, B and K >= 0
LeqRoot(A, B, K) ==
    IF B >= 0 THEN A <= 0 \/ A * A <= B * B * K
    ELSE A <= 0 /\ A * A >= B * B * K

\* A >= B * sqrt(K)
GeqRoot(A, B, K) == LeqRoot(-A, -B, K)

\* floor(sqrt(i)), what `(i as f64).sqrt() as i32` gives for i >= 0
ISqrt(i) == CHOOSE r \in 0..i : r * r <= i /\ (r + 1) * (r + 1) > i

----------------------------------------------------------------------------
(* geometry.rs *)

Pt(x, y) == [x |-> x, y |-> y]
Ln(p, q) == [p |-> p, q |-> q]

\* is_inside with the upper bound included
is_inside_closed(pt, min, max) ==
    pt.x >= min /\ pt.x <= max /\ pt.y >= min /\ pt.y <= max

is_inside(pt, min, max) ==
    pt.x >= min /\ pt.x < max /\ pt.y >= min /\ pt.y < max

\* (p/q).round() as i32, where p/q = x + N / (2 * sqrt(K)): round() takes
\* halves away from zero, so the direction depends on the sign of p/q.
divide(x, N, K) ==
    LET R == Abs(N) + 1
    IN  IF GeqRoot(N, -2 * x, K)
        THEN x + (CHOOSE f \in -R..R :
                     GeqRoot(N, 2 * f - 1, K) /\ ~GeqRoot(N, 2 * f + 1, K))
        ELSE x + (CHOOSE g \in -R..R :
                     LeqRoot(N, 2 * g + 1, K) /\ ~LeqRoot(N, 2 * g - 1, K))

\* len.round() as i32 for len = n / sqrt(D)
RoundLen(n, D) == divide(0, 2 * n, D)

\* i32 division by 2 truncates toward zero
Half(l) == Sign(l) * (Abs(l) \div 2)

\* NaN.round() as i32 is 0: every coordinate of the sloped branch is NaN
\* when m is NaN.
new_with_center(p, m, n, D) ==
    IF is_infinite(m)
    THEN LET l == RoundLen(n, D)
         IN  Ln(Pt(p.x, p.y - Half(l)), Pt(p.x, p.y + Half(l)))
    ELSE IF m.k = "nan"
    THEN Ln(Pt(0, 0), Pt(0, 0))
    ELSE LET a == Num(m)
             b == Den(m)
             K == D * (a * a + b * b)
         IN  Ln(Pt(divide(p.x, n * b, K), divide(p.y, n * a, K)),
                Pt(divide(p.x, -(n * b), K), divide(p.y, -(n * a), K)))

gradient(l) ==
    LET rise == l.q.y - l.p.y
        run == l.q.x - l.p.x
    IN  IF run = 0
        THEN (IF rise = 0 THEN NaN ELSE Inf(Sign(rise)))
        ELSE IF rise = 0 THEN Zero(Sign(run))
        ELSE Fin(rise, run)

\* len rounding to the nearest integer instead of truncating
len_rounded(l) ==
    LET x == Abs(l.q.x - l.p.x)
        y == Abs(l.q.y - l.p.y)
        s == x * x + y * y
    IN  IF s = 0 THEN 0 ELSE divide(0, 2 * s, s)

len(l) ==
    LET x == Abs(l.q.x - l.p.x)
        y == Abs(l.q.y - l.p.y)
    IN  ISqrt(x * x + y * y)

\* line_drawing::Octant::new: the octant of the direction start -> end
Octant(s, e) ==
    LET dx0 == e.x - s.x
        dy0 == e.y - s.y
        neg == dy0 < 0
        dx1 == IF neg THEN -dx0 ELSE dx0
        dy1 == IF neg THEN -dy0 ELSE dy0
        rot == dx1 < 0
        dx2 == IF rot THEN dy1 ELSE dx1
        dy2 == IF rot THEN -dx1 ELSE dy1
    IN  (IF neg THEN 4 ELSE 0) + (IF rot THEN 2 ELSE 0)
          + (IF dx2 < dy2 THEN 1 ELSE 0)

\* Octant::to: map a point into octant 0
OctTo(o, pt) ==
    CASE o = 0 -> Pt(pt.x, pt.y)
      [] o = 1 -> Pt(pt.y, pt.x)
      [] o = 2 -> Pt(pt.y, -pt.x)
      [] o = 3 -> Pt(-pt.x, pt.y)
      [] o = 4 -> Pt(-pt.x, -pt.y)
      [] o = 5 -> Pt(-pt.y, -pt.x)
      [] o = 6 -> Pt(-pt.y, pt.x)
      [] OTHER -> Pt(pt.x, -pt.y)

\* Octant::from: the inverse of OctTo
OctFrom(o, pt) ==
    CASE o = 0 -> Pt(pt.x, pt.y)
      [] o = 1 -> Pt(pt.y, pt.x)
      [] o = 2 -> Pt(-pt.y, pt.x)
      [] o = 3 -> Pt(-pt.x, pt.y)
      [] o = 4 -> Pt(-pt.x, -pt.y)
      [] o = 5 -> Pt(-pt.y, -pt.x)
      [] o = 6 -> Pt(pt.y, -pt.x)
      [] OTHER -> Pt(pt.x, -pt.y)

\* Bresenham::next running one step past end_x
RECURSIVE BresenhamIter_over(_, _, _, _, _, _, _)
BresenhamIter_over(o, px, py, end_x, delta_x, delta_y, error) ==
    IF px <= end_x + 1
    THEN <<OctFrom(o, Pt(px, py))>> \o
         BresenhamIter_over(o, px + 1,
                            IF error >= 0 THEN py + 1 ELSE py,
                            end_x, delta_x, delta_y,
                            (IF error >= 0 THEN error - delta_x ELSE error) + delta_y)
    ELSE <<>>

\* Bresenham::next, iterated until it returns None
RECURSIVE BresenhamIter(_, _, _, _, _, _, _)
BresenhamIter(o, px, py, end_x, delta_x, delta_y, error) ==
    IF px <= end_x
    THEN <<OctFrom(o, Pt(px, py))>> \o
         BresenhamIter(o, px + 1,
                       IF error >= 0 THEN py + 1 ELSE py,
                       end_x, delta_x, delta_y,
                       (IF error >= 0 THEN error - delta_x ELSE error) + delta_y)
    ELSE <<>>

\* Bresenham::new((p.x, p.y), (q.x, q.y)) collected into a sequence
points_along(l) ==
    LET o == Octant(l.p, l.q)
        s == OctTo(o, l.p)
        e == OctTo(o, l.q)
        delta_x == e.x - s.x
        delta_y == e.y - s.y
    IN  BresenhamIter(o, s.x, s.y, e.x, delta_x, delta_y, delta_y - delta_x)

----------------------------------------------------------------------------
(* fractals.rs: growth *)

new(p, length, gradient_change) ==
    [older |-> {},
     newer |-> {new_with_center(p, gradient_change, length, 1)},
     gradient_change |-> gradient_change]

\* two_new centring both children on line.p
two_new_same(line, gradient_change) ==
    LET m == FSub(gradient_change, Recip(gradient(line)))
    IN  <<new_with_center(line.p, m, len(line), 2),
          new_with_center(line.p, m, len(line), 2)>>

two_new(line, gradient_change) ==
    LET m == FSub(gradient_change, Recip(gradient(line)))
    IN  <<new_with_center(line.p, m, len(line), 2),
          new_with_center(line.q, m, len(line), 2)>>

\* flat_map(two_new) collected into a HashSet
Sprouted(newer, gradient_change) ==
    UNION {{two_new(l, gradient_change)[1], two_new(l, gradient_change)[2]}
             : l \in newer}

\* the loop written `for _ in 0..=n`
RECURSIVE Grow_inclusive(_, _, _, _)
Grow_inclusive(older, newer, gradient_change, n) ==
    IF n < 0
    THEN [older |-> older, newer |-> newer]
    ELSE Grow_inclusive(older \cup newer, Sprouted(newer, gradient_change),
                        gradient_change, n - 1)

\* the loop `for _ in 0..n` of level_added; it does not run for n <= 0
RECURSIVE Grow(_, _, _, _)
Grow(older, newer, gradient_change, n) ==
    IF n <= 0
    THEN [older |-> older, newer |-> newer]
    ELSE Grow(older \cup newer, Sprouted(newer, gradient_change),
              gradient_change, n - 1)

\* level_added merging `newer` into `older` before the loop is entered
level_added_merged(self, n) ==
    LET r == Grow(self.older \cup self.newer, self.newer,
                  self.gradient_change, n)
    IN  [older |-> r.older, newer |-> r.newer,
         gradient_change |-> self.gradient_change]

level_added(self, n) ==
    LET r == Grow(self.older, self.newer, self.gradient_change, n)
    IN  [older |-> r.older, newer |-> r.newer,
         gradient_change |-> self.gradient_change]

Lines(h) == h.older \cup h.newer

----------------------------------------------------------------------------
(* fractals.rs: render, as one sequential function *)

Index(pt, img_width) == pt.y * img_width + pt.x

\* the pixel indices one line contributes: points_along, filter, map
LinePixels(l, img_width) ==
    {Index(points_along(l)[j], img_width) :
        j \in {i \in 1..Len(points_along(l)) :
                  is_inside(points_along(l)[i], 0, img_width)}}

RenderPixels(self, img_width) ==
    UNION {LinePixels(l, img_width) : l \in Lines(self)}

\* `canvas[p] = 1` panics when p is outside the fixed-size array
Overflows(px) == \E i \in px : i >= NUM_PIXELS

\* A canvas [u8; NUM_PIXELS] is kept as its length and the set of indices
\* holding 1; every other cell holds the initial 0.
NoCanvas == [len |-> 0, ones |-> {}]
Paint(px) == [len |-> NUM_PIXELS, ones |-> px]
Cell(c, i) == IF i \in c.ones THEN 1 ELSE 0

\* the canvas returned by render; NoCanvas when the write loop panics
render(self, img_width) ==
    IF Overflows(RenderPixels(self, img_width))
    THEN NoCanvas
    ELSE Paint(RenderPixels(self, img_width))

----------------------------------------------------------------------------
(* State *)

VARIABLES
    tree,       \* the HTree the caller holds
    parent,     \* the receiver of the last level_added call
    n,          \* the argument of the last level_added call
    last,       \* the last call made: "new", "level_added" or "render"
    level,      \* number of growth levels applied to the seed so far
    rpc,        \* render: "idle", "par", "done" or "panic"
    img_width,  \* render: the img_width argument
    rest,       \* render: lines not yet handed to a worker
    cur,        \* render: the worker receiving the current chunk of lines
    local,      \* render: the pixel indices each worker has collected
    joined,     \* render: workers whose result has been merged
    pixels,     \* render: the merged set `pixels`
    canvas,     \* render: the canvas array, NoCanvas while it does not exist
    probe,      \* a line handed to Line::len
    measured    \* the value Line::len returned for it, -1 before the call

vars == <<tree, parent, n, last, level, rpc, img_width, rest, cur, local,
          joined, pixels, canvas, probe, measured>>

growVars == <<tree, parent, n, last, level>>
renderVars == <<rpc, img_width, rest, cur, local, joined, pixels, canvas>>
probeVars == <<probe, measured>>

Workers == 1..NumWorkers
SeedCenters == {Pt(2, 2), Pt(254, 255)}
SeedLengths == 0..MaxLen
GradientChanges == {Zero(1), Fin(1, 1), Fin(2, 1), Fin(-1, 2), Inf(1), NaN}
Widths == {IMGWID \div 2, IMGWID, IMGWID + 1}
ProbeLines == {Ln(Pt(a, b), Pt(c, d)) : a, b, c, d \in 0..MaxCoord}

RenderIdle ==
    /\ rpc = "idle"
    /\ img_width = 0
    /\ rest = {}
    /\ cur = 1
    /\ local = [w \in Workers |-> {}]
    /\ joined = {}
    /\ pixels = {}
    /\ canvas = NoCanvas

Init ==
    /\ \E p \in SeedCenters, length \in SeedLengths, g \in GradientChanges :
          tree = new(p, length, g)
    /\ parent = tree
    /\ n = 0
    /\ last = "new"
    /\ level = 0
    /\ RenderIdle
    /\ probe = Ln(Pt(0, 0), Pt(0, 0))
    /\ measured = -1

InitGeom ==
    /\ tree = new(Pt(0, 0), 0, Zero(1))
    /\ parent = tree
    /\ n = 0
    /\ last = "new"
    /\ level = 0
    /\ RenderIdle
    /\ probe \in ProbeLines
    /\ measured = -1

----------------------------------------------------------------------------
(* Actions *)

\* h = h.level_added(k); the previous frame, if any, is dropped
LevelAdded(k) ==
    /\ rpc \in {"idle", "done"}
    /\ level + k <= MaxLevel
    /\ tree' = level_added(tree, k)
    /\ parent' = tree
    /\ n' = k
    /\ last' = "level_added"
    /\ level' = level + k
    /\ rpc' = "idle"
    /\ img_width' = 0
    /\ rest' = {}
    /\ cur' = 1
    /\ local' = [w \in Workers |-> {}]
    /\ joined' = {}
    /\ pixels' = {}
    /\ canvas' = NoCanvas
    /\ UNCHANGED probeVars

\* render entered: the union of the two sets is handed to the thread pool
RenderStart(w) ==
    /\ rpc \in {"idle", "done"}
    /\ rpc' = "par"
    /\ img_width' = w
    /\ rest' = Lines(tree)
    /\ cur' = 1
    /\ local' = [k \in Workers |-> {}]
    /\ joined' = {}
    /\ pixels' = {}
    /\ canvas' = NoCanvas
    /\ parent' = tree
    /\ n' = 0
    /\ last' = "render"
    /\ UNCHANGED <<tree, level, probeVars>>

\* worker k maps the next line of its chunk to pixel indices.  The lines are
\* split into contiguous chunks of the vector the set was drained into, one
\* chunk per worker; CHOOSE fixes the order of that vector.
WorkerMap(k) ==
    /\ rpc = "par"
    /\ rest # {}
    /\ k >= cur
    /\ LET l == CHOOSE x \in rest : TRUE
       IN  /\ local' = [local EXCEPT ![k] = @ \cup LinePixels(l, img_width)]
           /\ rest' = rest \ {l}
    /\ cur' = k
    /\ UNCHANGED <<growVars, rpc, img_width, joined, pixels, canvas, probeVars>>

\* a merge that keeps only the result merged last
Reduce_overwrite(k) ==
    /\ rpc = "par"
    /\ k \notin joined
    /\ rest = {} \/ k < cur
    /\ pixels' = local[k]
    /\ joined' = joined \cup {k}
    /\ UNCHANGED <<growVars, rpc, img_width, rest, cur, local, canvas, probeVars>>

\* the result of a worker that has finished its chunk is merged into `pixels`
Reduce(k) ==
    /\ rpc = "par"
    /\ k \notin joined
    /\ rest = {} \/ k < cur
    /\ pixels' = pixels \cup local[k]
    /\ joined' = joined \cup {k}
    /\ UNCHANGED <<growVars, rpc, img_width, rest, cur, local, canvas, probeVars>>

\* after the join: allocate the canvas and write every collected index
WriteBack ==
    /\ rpc = "par"
    /\ joined = Workers
    /\ IF Overflows(pixels)
       THEN rpc' = "panic" /\ canvas' = NoCanvas
       ELSE rpc' = "done" /\ canvas' = Paint(pixels)
    /\ UNCHANGED <<growVars, img_width, rest, cur, local, joined, pixels, probeVars>>

\* probe.len()
Measure ==
    /\ measured = -1
    /\ measured' = len(probe)
    /\ UNCHANGED <<growVars, renderVars, probe>>

Next ==
    \/ \E k \in 0..MaxLevel : LevelAdded(k)
    \/ \E w \in Widths : RenderStart(w)
    \/ \E k \in Workers : WorkerMap(k)
    \/ \E k \in Workers : Reduce(k)
    \/ WriteBack

NextGrow == \E k \in 0..MaxLevel : LevelAdded(k)

NextGeom == Measure

Spec == Init /\ [][Next]_vars

SpecGrow == Init /\ [][NextGrow]_vars

SpecGeom == InitGeom /\ [][NextGeom]_vars

----------------------------------------------------------------------------
(* Claims *)

Sq(i) == i * i
Dist2(l) == Sq(l.q.x - l.p.x) + Sq(l.q.y - l.p.y)
Grown == last = "level_added"

\* C1: after any number of growth levels from any seed, no line is a member
\* of both `older` and `newer`.
C1_Disjoint == tree.older \cap tree.newer = {}

\* C2: advancing by n and then by m gives the same older set, newer set and
\* gradient_change as advancing the original state by n + m.
C2_Composes ==
    Grown => \A m \in 0..MaxLevel :
                level_added(tree, m) = level_added(parent, n + m)

C2_Witness ==
    /\ Grown
    /\ n >= 1
    /\ tree.newer # parent.newer
    /\ level_added(tree, 1).newer # tree.newer

\* C3: advancing by 0 returns the same older and newer sets, and the state
\* renders to the same canvas before and after at every width.
C3_Identity ==
    (Grown /\ n = 0) =>
        /\ tree.older = parent.older
        /\ tree.newer = parent.newer
        /\ \A w \in Widths : render(tree, w) = render(parent, w)

C3_Witness ==
    /\ Grown
    /\ n = 0
    /\ parent.older # {}
    /\ ~(parent.newer \subseteq parent.older)
    /\ render(tree, IMGWID).ones # {}

\* the indices y * w + x of the points of the lines of h that lie inside the
\* canvas of width w
InsideIndices(h, w) ==
    UNION {{points_along(l)[j].y * w + points_along(l)[j].x :
               j \in {i \in 1..Len(points_along(l)) :
                         /\ 0 <= points_along(l)[i].x
                         /\ points_along(l)[i].x < w
                         /\ 0 <= points_along(l)[i].y
                         /\ points_along(l)[i].y < w}}
             : l \in h.older \cup h.newer}

C5_Length == rpc = "done" => canvas.len = img_width * img_width

\* C6: one growth step sets older' = older \cup newer and newer' = the set
\* of the children of the previous newer only: for each frontier line one
\* child centred on p and one on q, with slope gradient_change - 1/gradient
\* and target length len / sqrt(2).
C6_Step ==
    (Grown /\ n = 1) =>
        /\ tree.older = parent.older \cup parent.newer
        /\ tree.newer =
             UNION {{new_with_center(c,
                        FSub(parent.gradient_change, Recip(gradient(l))),
                        len(l), 2) : c \in {l.p, l.q}}
                      : l \in parent.newer}
        /\ tree.gradient_change = parent.gradient_change

C6_Witness ==
    /\ Grown
    /\ n = 1
    /\ parent.older # {}
    /\ Cardinality(tree.newer) = 2 * Cardinality(parent.newer)
    /\ \E l \in parent.newer : gradient(l).k = "fin"

\* C7: whatever chunks the workers take and in whatever order their results
\* are merged, render ends with the canvas of the sequential run, and the
\* canvas is not written while the workers run.
C7_ForkJoin ==
    /\ rpc = "par" => canvas = NoCanvas
    /\ rpc \in {"done", "panic"} => canvas = render(tree, img_width)

C7_Witness ==
    /\ rpc = "done"
    /\ local[1] # {}
    /\ local[2] # {}
    /\ local[1] # local[2]
    /\ local[1] \cap local[2] # {}

C9_ChildLength ==
    (Grown /\ n = 1) =>
        \A l \in parent.newer : \A i \in 1..2 :
            LET c == len(two_new(l, parent.gradient_change)[i])
            IN  /\ two_new(l, parent.gradient_change)[i] \in tree.newer
                /\ GeqRoot(len(l), c - 1, 2)
                /\ LeqRoot(len(l), c + 1, 2)

====
